---- MODULE Spec2Model ----
(***************************************************************************)
(* Order / payment / stock bookkeeping of the Flask e-shop.                *)
(*                                                                         *)
(*   app/api/routes.py    create_payment_intent (checkout), stripe_webhook *)
(*   app/admin/routes.py  order_status, order_refund, product_delete       *)
(*   app/models.py        Product, Order, OrderItem, ShopSettings          *)
(*   app/services/email.py  send_email and its sender thread               *)
(*                                                                         *)
(* Every request handler is one action of the serial specification Spec.   *)
(* SpecConc splits stripe_webhook at the point where the order row has     *)
(* been read and nothing has been written yet, so that two deliveries can  *)
(* overlap.  SpecCheckout records the checkout request next to its         *)
(* response, for the properties of the validation.  SpecMail runs the      *)
(* sender threads of the emails beside the handlers that start them.       *)
(* SpecTrip keeps, next to a payment, the stock it found, up to the refund *)
(* of the same order.                                                      *)
(***************************************************************************)
EXTENDS Integers, Sequences, FiniteSets, TLC

\* ---------------------------------------------------------------- bounds
MaxStock == 2          \* initial stock of a product is drawn from 0..MaxStock
MaxQty == 2            \* largest quantity a cart item carries
MaxItems == 2          \* longest cart
MaxOrders == 1         \* orders that can be created
MaxStatusChanges == 2  \* accepted admin status changes

\* ------------------------------------------------------ the product table
VisibleIds == {"p1"}
HiddenIds == {"p2"}
ProductIds == VisibleIds \cup HiddenIds
MissingId == "p9"                       \* an id no product row ever has
RequestIds == ProductIds \cup {MissingId}

\* Product.price: integer minor units; fixed per product (no price edits here)
Price == [p \in ProductIds |-> IF p = "p1" THEN 300 ELSE 250]

\* quantities a client may put in the JSON body; nothing in the handler
\* restricts them to positive numbers
Quantities == (0 - 1)..MaxQty

NULL == "NULL"

\* ShopSettings.query.first() is None  ->  fallback fee
FallbackShippingFee == 500
\* the shop_settings table: no row, or the singleton row
SettingsTables == {<<>>, <<[shipping_fee |-> 700]>>}

\* Order.stripe_payment_intent_id is nullable; intent ids are 1, 2, ...
NoIntent == 0

Valid == {"PENDING", "PAID", "SHIPPED", "DELIVERED", "CANCELLED", "REFUNDED"}
StatusInputs == Valid \cup {"BOGUS", NULL}

Handlers == {"h1", "h2"}

VARIABLES
  products,      \* live Product rows: id -> [stock, price, visible]
  settings,      \* the shop_settings table: <<>> or the singleton row
  orders,        \* Order rows with their OrderItems, indexed by order id 1..n
  decCount,      \* history: per order, how often its items were taken off stock
  restockCount,  \* history: per order, how often refund added its items back
  confAttempts,  \* history: per order, calls of send_order_confirmation
  shipAttempts,  \* history: per order, calls of send_shipping_notification
  nStatus,       \* history: accepted admin status changes so far
  last,          \* history: the request handled last and its outcome
  req,           \* history: the checkout request handled last (SpecCheckout)
  hpc,           \* SpecConc: position of each in-flight webhook handler
  hord,          \* SpecConc: the order the handler's query returned
  hsnap,         \* SpecConc: order.status as loaded by the handler
  threads,       \* SpecMail: sender threads started and not yet run
  mailLog,       \* SpecMail: history of what the sender threads' mail.send did
  trip           \* SpecTrip: history of the payment being followed to its refund

vars == <<products, settings, orders, decCount, restockCount, confAttempts,
          shipAttempts, nStatus, last, req, hpc, hord, hsnap, threads, mailLog, trip>>

hvars == <<hpc, hord, hsnap>>

\* what only the specifications SpecMail and SpecTrip follow
aux == <<threads, mailLog, trip>>

\* ---------------------------------------------------------------- helpers
Max(a, b) == IF a >= b THEN a ELSE b

OrderIds == 1..Len(orders)

Live == DOMAIN products

\* the query without its visibility filter
ProductMap_AnyVisibility(items) ==
  {p \in Live : \E i \in 1..Len(items) : items[i].id = p}

\* Product.query.filter(Product.id.in_(product_ids), Product.visible == True)
\* -> product_map: the ids among the requested ones that resolve
ProductMap(items) ==
  {p \in Live : products[p].visible /\ \E i \in 1..Len(items) : items[i].id = p}

\* the loop without its stock check
RECURSIVE ValidateFrom_NoStockCheck(_, _, _)
ValidateFrom_NoStockCheck(items, pm, i) ==
  IF i > Len(items) THEN "ok"
  ELSE IF items[i].id \notin pm THEN "Product not found"
  ELSE ValidateFrom_NoStockCheck(items, pm, i + 1)

\* the validation loop, item by item in cart order, from index i on
RECURSIVE ValidateFrom(_, _, _)
ValidateFrom(items, pm, i) ==
  IF i > Len(items) THEN "ok"
  ELSE IF items[i].id \notin pm THEN "Product not found"
  ELSE IF products[items[i].id].stock < items[i].quantity THEN "Insufficient stock"
  ELSE ValidateFrom(items, pm, i + 1)

\* subtotal += product.price * item["quantity"]
RECURSIVE SubtotalFrom(_, _)
SubtotalFrom(items, i) ==
  IF i > Len(items) THEN 0
  ELSE products[items[i].id].price * items[i].quantity + SubtotalFrom(items, i + 1)

\* the order_items dicts: product_id, price_at_time, quantity snapshots
OrderItemsOf(items) ==
  [i \in 1..Len(items) |->
     [product_id |-> items[i].id,
      price_at_time |-> products[items[i].id].price,
      quantity |-> items[i].quantity]]

\* settings.shipping_fee if settings else 500
ShippingCost == IF settings = <<>> THEN FallbackShippingFee ELSE settings[1].shipping_fee

\* an order whose total leaves the shipping cost out
NewOrder_NoShipping(items) ==
  [status |-> "PENDING",
   items |-> OrderItemsOf(items),
   subtotal |-> SubtotalFrom(items, 1),
   shipping_cost |-> ShippingCost,
   total |-> SubtotalFrom(items, 1),
   stripe_payment_intent_id |-> NoIntent,
   confirmation_sent |-> FALSE,
   shipping_notified |-> FALSE]

\* Order(...) with the column defaults of models.py
NewOrder(items) ==
  [status |-> "PENDING",
   items |-> OrderItemsOf(items),
   subtotal |-> SubtotalFrom(items, 1),
   shipping_cost |-> ShippingCost,
   total |-> SubtotalFrom(items, 1) + ShippingCost,
   stripe_payment_intent_id |-> NoIntent,
   confirmation_sent |-> FALSE,
   shipping_notified |-> FALSE]

\* the id of the intent the gateway creates for the next order
NewIntentId == Len(orders) + 1

\* the order committed before the gateway is asked
PersistOrder_CommitFirst(os, order, gw) ==
  Append(os, [order EXCEPT !.stripe_payment_intent_id = gw])

\* session.add(order); flush(); add items; stripe_create_pi(...);
\* order.stripe_payment_intent_id = intent.id; commit().
\* gw is the intent id, or NoIntent when the gateway call raises: the exception
\* leaves the handler before commit and the request's session is rolled back.
PersistOrder(os, order, gw) ==
  IF gw = NoIntent THEN os
  ELSE Append(os, [order EXCEPT !.stripe_payment_intent_id = gw])

\* the record kept in last: the handler, its target (order id, or the intent
\* id of a webhook event), its outcome, the intent id handed to the gateway's
\* refund call (NoIntent: no call), and whether the step before was a
\* delivery of the same verified payment-succeeded event
Label(op, o, res) ==
  [op |-> op, o |-> o, res |-> res, gw |-> NoIntent, mail |-> "none",
   rep |-> (last.op = op /\ last.o = o /\ op = "webhook"
            /\ last.res \in {"paid", "noop"} /\ res \in {"paid", "noop"})]

\* send_email as its caller sees it: it returns once the sender thread is
\* started, or raises before that (render_template, Message)
SendOutcome(mailOk) == IF mailOk THEN "started" ELSE "raised"

\* no payment is being followed
NoTrip == [o |-> 0, stock |-> <<>>, done |-> FALSE]

NoReq == [items |-> <<>>, name |-> FALSE, email |-> FALSE]

Carts == UNION {[1..n -> [id : RequestIds, quantity : Quantities]] : n \in 0..MaxItems}

\* ------------------------------------------------------------------- Init
Init ==
  /\ \E st \in 0..MaxStock :
       products = [p \in ProductIds |->
                     [stock |-> st, price |-> Price[p], visible |-> p \in VisibleIds]]
  /\ settings \in SettingsTables
  /\ orders = <<>>
  /\ decCount = <<>>
  /\ restockCount = <<>>
  /\ confAttempts = <<>>
  /\ shipAttempts = <<>>
  /\ nStatus = 0
  /\ last = [op |-> "none", o |-> 0, res |-> "none", gw |-> NoIntent, mail |-> "none",
             rep |-> FALSE]
  /\ req = NoReq
  /\ threads = <<>>
  /\ mailLog = {}
  /\ trip = NoTrip
  /\ hpc = [h \in Handlers |-> "idle"]
  /\ hord = [h \in Handlers |-> 0]
  /\ hsnap = [h \in Handlers |-> NULL]

\* ------------------------------------------------- create_payment_intent
\* POST /api/stripe/create-payment-intent.  name/email: whether the customer
\* field is present; gwOk: whether the gateway creates the intent.
CheckoutResult(items, name, email, gwOk) ==
  IF items = <<>> \/ ~name \/ ~email THEN "Missing required fields"
  ELSE LET v == ValidateFrom(items, ProductMap(items), 1) IN
       IF v # "ok" THEN v
       ELSE IF ~gwOk THEN "gateway error"
       ELSE "ok"

CreatePaymentIntent(items, name, email, gwOk) ==
  LET res == CheckoutResult(items, name, email, gwOk)
      passed == res \in {"ok", "gateway error"}
      os == IF passed
            THEN PersistOrder(orders, NewOrder(items), IF gwOk THEN NewIntentId ELSE NoIntent)
            ELSE orders
      n == Len(os)
  IN /\ orders' = os
     /\ decCount' = [o \in 1..n |-> IF o \in OrderIds THEN decCount[o] ELSE 0]
     /\ restockCount' = [o \in 1..n |-> IF o \in OrderIds THEN restockCount[o] ELSE 0]
     /\ confAttempts' = [o \in 1..n |-> IF o \in OrderIds THEN confAttempts[o] ELSE 0]
     /\ shipAttempts' = [o \in 1..n |-> IF o \in OrderIds THEN shipAttempts[o] ELSE 0]
     /\ last' = Label("checkout", IF res = "ok" THEN n ELSE 0, res)
     /\ UNCHANGED <<products, settings, nStatus>>

Checkout ==
  /\ Len(orders) < MaxOrders
  /\ \E items \in Carts, name \in BOOLEAN, email \in BOOLEAN, gwOk \in BOOLEAN :
       /\ CreatePaymentIntent(items, name, email, gwOk)
       /\ UNCHANGED <<req, hvars, aux>>

\* the same handler, with the request kept next to its response
CheckoutRecorded ==
  /\ Len(orders) < MaxOrders
  /\ req = NoReq
  /\ \E items \in Carts, name \in BOOLEAN, email \in BOOLEAN, gwOk \in BOOLEAN :
       /\ CreatePaymentIntent(items, name, email, gwOk)
       /\ req' = [items |-> items, name |-> name, email |-> email]
       /\ UNCHANGED <<hvars, aux>>

\* ---------------------------------------------------------- stripe_webhook
\* Order.query.filter_by(stripe_payment_intent_id=pi["id"]).first(); 0: None
OrderByIntent(pi) ==
  IF \E o \in OrderIds : orders[o].stripe_payment_intent_id = pi
  THEN CHOOSE o \in OrderIds :
         /\ orders[o].stripe_payment_intent_id = pi
         /\ \A q \in OrderIds : orders[q].stripe_payment_intent_id = pi => o <= q
  ELSE 0

\* the subtraction without the clamp
Decrement_NoClamp(stock, quantity) == stock - quantity

\* product.stock = max(0, product.stock - item.quantity)
Decrement(stock, quantity) == Max(0, stock - quantity)

\* for item in order.items: if item.product_id: product = get(...); if product: ...
RECURSIVE DecrementStock(_, _, _)
DecrementStock(ps, items, i) ==
  IF i > Len(items) THEN ps
  ELSE LET pid == items[i].product_id IN
       IF pid # NULL /\ pid \in DOMAIN ps
       THEN DecrementStock(
              [ps EXCEPT ![pid].stock = Decrement(ps[pid].stock, items[i].quantity)],
              items, i + 1)
       ELSE DecrementStock(ps, items, i + 1)

\* the guard without its status test
MayPay_AnyStatus(o, status) == o # 0

\* if order and order.status == "PENDING", seen through the status the
\* handler holds for the order
MayPay(o, status) == o # 0 /\ status = "PENDING"

\* the writes without the status assignment
PayOrder_StatusKept(o, mailOk) ==
  /\ orders' = [orders EXCEPT ![o].confirmation_sent = (@ \/ mailOk)]
  /\ products' = DecrementStock(products, orders[o].items, 1)
  /\ decCount' = [decCount EXCEPT ![o] = @ + 1]
  /\ confAttempts' = [confAttempts EXCEPT ![o] = @ + 1]

\* lines 146-165: status, stock, commit, then the confirmation email.
\* mailOk: send_order_confirmation returned (FALSE: it raised).
PayOrder(o, mailOk) ==
  /\ orders' = [orders EXCEPT ![o].status = "PAID",
                              ![o].confirmation_sent = (@ \/ mailOk)]
  /\ products' = DecrementStock(products, orders[o].items, 1)
  /\ decCount' = [decCount EXCEPT ![o] = @ + 1]
  /\ confAttempts' = [confAttempts EXCEPT ![o] = @ + 1]

Signatures == {NULL, "bad", "good"}
EventTypes == {"payment_intent.succeeded", "payment_intent.payment_failed"}

\* POST /api/stripe/webhook, handled without interruption
StripeWebhook(sig, type, pi, mailOk) ==
  LET o == OrderByIntent(pi) IN
  /\ IF sig # "good"
     THEN /\ last' = Label("webhook", 0, "bad signature")
          /\ UNCHANGED <<orders, products, decCount, confAttempts>>
     ELSE IF type # "payment_intent.succeeded"
     THEN /\ last' = Label("webhook", 0, "other event")
          /\ UNCHANGED <<orders, products, decCount, confAttempts>>
     ELSE IF MayPay(o, IF o = 0 THEN NULL ELSE orders[o].status)
     THEN /\ PayOrder(o, mailOk)
          /\ last' = [Label("webhook", pi, "paid") EXCEPT !.mail = SendOutcome(mailOk)]
     ELSE /\ last' = Label("webhook", pi, "noop")
          /\ UNCHANGED <<orders, products, decCount, confAttempts>>
  /\ UNCHANGED <<settings, restockCount, shipAttempts, nStatus, req, hvars>>

Webhook ==
  \E sig \in Signatures, type \in EventTypes, pi \in 1..(MaxOrders + 1),
     mailOk \in BOOLEAN :
    StripeWebhook(sig, type, pi, mailOk) /\ UNCHANGED aux

\* The same handler as two steps, for overlapping deliveries.  The handler
\* writes nothing before line 146; from its first write on (the status UPDATE
\* is flushed before the first Product query) the database serialises it
\* against other writers until its commit.  So the only point where another
\* request can come in between is after the order row has been loaded.

\* lines 130-143: verify the event, load the order
WebhookRead(h, sig, type, pi) ==
  LET o == OrderByIntent(pi) IN
  /\ hpc[h] = "idle"
  /\ IF sig # "good"
     THEN /\ last' = Label("webhook", 0, "bad signature")
          /\ UNCHANGED hvars
     ELSE IF type # "payment_intent.succeeded"
     THEN /\ last' = Label("webhook", 0, "other event")
          /\ UNCHANGED hvars
     ELSE /\ hpc' = [hpc EXCEPT ![h] = "loaded"]
          /\ hord' = [hord EXCEPT ![h] = o]
          /\ hsnap' = [hsnap EXCEPT ![h] = IF o = 0 THEN NULL ELSE orders[o].status]
          /\ last' = Label("webhook read", pi, "loaded")
  /\ UNCHANGED <<products, settings, orders, decCount, restockCount, confAttempts,
                 shipAttempts, nStatus, req>>

\* lines 145-167: the check on the loaded status, the writes, the commits
WebhookFinish(h, mailOk) ==
  /\ hpc[h] = "loaded"
  /\ IF MayPay(hord[h], hsnap[h])
     THEN /\ PayOrder(hord[h], mailOk)
          /\ last' = [Label("webhook", hord[h], "paid") EXCEPT !.mail = SendOutcome(mailOk)]
     ELSE /\ last' = Label("webhook", hord[h], "noop")
          /\ UNCHANGED <<orders, products, decCount, confAttempts>>
  /\ hpc' = [hpc EXCEPT ![h] = "idle"]
  /\ hord' = [hord EXCEPT ![h] = 0]
  /\ hsnap' = [hsnap EXCEPT ![h] = NULL]
  /\ UNCHANGED <<settings, restockCount, shipAttempts, nStatus, req>>

WebhookBegin ==
  \E h \in Handlers, sig \in Signatures, type \in EventTypes, pi \in 1..(MaxOrders + 1) :
    WebhookRead(h, sig, type, pi) /\ UNCHANGED aux

WebhookEnd ==
  \E h \in Handlers, mailOk \in BOOLEAN : WebhookFinish(h, mailOk) /\ UNCHANGED aux

\* ------------------------------------------------------------ order_status
\* the assignment without the membership test
NewStatus_Unchecked(old, new_status) == new_status

\* the value order.status has after the request
NewStatus(old, new_status) == IF new_status \in Valid THEN new_status ELSE old

\* the test without the flag
ShouldNotify_Always(new_status, notified) == new_status = "SHIPPED"

\* if new_status == "SHIPPED" and not order.shipping_notified
ShouldNotify(new_status, notified) == new_status = "SHIPPED" /\ ~notified

\* POST /admin/orders/<id>/status.  mailOk: send_shipping_notification
\* returned (FALSE: it raised, and the except branch passes).
OrderStatus(o, new_status, mailOk) ==
  LET notify == ShouldNotify(new_status, orders[o].shipping_notified) IN
  /\ o \in OrderIds
  /\ new_status \in Valid => nStatus < MaxStatusChanges
  /\ orders' = [orders EXCEPT
                  ![o].status = NewStatus(@, new_status),
                  ![o].shipping_notified = (@ \/ (notify /\ mailOk))]
  /\ shipAttempts' = [shipAttempts EXCEPT ![o] = IF notify THEN @ + 1 ELSE @]
  /\ nStatus' = IF new_status \in Valid THEN nStatus + 1 ELSE nStatus
  /\ last' = [Label("status", o, new_status) EXCEPT
                !.mail = IF notify THEN SendOutcome(mailOk) ELSE "none"]
  /\ UNCHANGED <<products, settings, decCount, restockCount, confAttempts, req, hvars>>

AdminStatus ==
  \E o \in OrderIds, new_status \in StatusInputs, mailOk \in BOOLEAN :
    OrderStatus(o, new_status, mailOk) /\ UNCHANGED aux

\* ------------------------------------------------------------ order_refund
\* "=" for "+="
Restock_Assign(stock, quantity) == quantity

\* product.stock += item.quantity
Restock(stock, quantity) == stock + quantity

RECURSIVE RestockItems(_, _, _)
RestockItems(ps, items, i) ==
  IF i > Len(items) THEN ps
  ELSE LET pid == items[i].product_id IN
       IF pid # NULL /\ pid \in DOMAIN ps
       THEN RestockItems(
              [ps EXCEPT ![pid].stock = Restock(ps[pid].stock, items[i].quantity)],
              items, i + 1)
       ELSE RestockItems(ps, items, i + 1)

\* the early returns without the REFUNDED test
RefundRejection_NoRefundedCheck(order) ==
  IF order.stripe_payment_intent_id = NoIntent THEN "No payment to refund"
  ELSE ""

\* the two early returns ahead of the try block; "" when neither is taken
RefundRejection(order) ==
  IF order.stripe_payment_intent_id = NoIntent THEN "No payment to refund"
  ELSE IF order.status = "REFUNDED" THEN "Already refunded"
  ELSE ""

\* POST /admin/orders/<id>/refund.  gwOk: stripe.Refund.create returned
\* (FALSE: it raised, and the except branch flashes the failure).
OrderRefund(o, gwOk) ==
  LET rejected == RefundRejection(orders[o])
      pi == orders[o].stripe_payment_intent_id
  IN
  /\ o \in OrderIds
  /\ IF rejected # ""
     THEN /\ last' = Label("refund", o, rejected)
          /\ UNCHANGED <<products, orders, restockCount>>
     ELSE IF ~gwOk
     THEN /\ last' = [Label("refund", o, "Refund failed") EXCEPT !.gw = pi]
          /\ UNCHANGED <<products, orders, restockCount>>
     ELSE /\ products' = RestockItems(products, orders[o].items, 1)
          /\ orders' = [orders EXCEPT ![o].status = "REFUNDED"]
          /\ restockCount' = [restockCount EXCEPT ![o] = @ + 1]
          /\ last' = [Label("refund", o, "Refund issued successfully") EXCEPT !.gw = pi]
  /\ UNCHANGED <<settings, decCount, confAttempts, shipAttempts, nStatus, req, hvars>>

AdminRefund == \E o \in OrderIds, gwOk \in BOOLEAN : OrderRefund(o, gwOk) /\ UNCHANGED aux

\* ---------------------------------------------------------- product_delete
\* OrderItem.product_id is a nullable reference: deleting the product
\* leaves the order items with product_id NULL
NullifyItems(items, p) ==
  [i \in 1..Len(items) |->
     IF items[i].product_id = p THEN [items[i] EXCEPT !.product_id = NULL] ELSE items[i]]

\* POST /admin/products/<id>/delete
ProductDelete(p) ==
  /\ p \in Live
  /\ products' = [q \in Live \ {p} |-> products[q]]
  /\ orders' = [o \in OrderIds |-> [orders[o] EXCEPT !.items = NullifyItems(@, p)]]
  /\ last' = Label("delete", 0, p)
  /\ UNCHANGED <<settings, decCount, restockCount, confAttempts, shipAttempts,
                 nStatus, req, hvars>>

AdminDelete == \E p \in VisibleIds : ProductDelete(p) /\ UNCHANGED aux

\* ------------------------------------------------------ services/email.py
\* The handlers above say whether send_email returned; what follows is the
\* sender thread it starts.  Spec and SpecConc leave the threads out: a
\* thread reads the message it was given and writes to the log only.
ConfirmationMail == "emails/order_confirmation.html"
ShippingMail == "emails/shipping_update.html"

\* send_email, lines 19-21: the thread exists once send_email has returned
StartThread(ts, template, o) == Append(ts, [template |-> template, o |-> o])

RemoveAt(ts, i) == [j \in 1..(Len(ts) - 1) |-> IF j < i THEN ts[j] ELSE ts[j + 1]]

\* stripe_webhook with the thread its send_order_confirmation starts
WebhookMail ==
  \E sig \in Signatures, type \in EventTypes, pi \in 1..(MaxOrders + 1),
     mailOk \in BOOLEAN :
    /\ StripeWebhook(sig, type, pi, mailOk)
    /\ threads' = IF last'.mail = "started"
                  THEN StartThread(threads, ConfirmationMail, OrderByIntent(pi))
                  ELSE threads
    /\ UNCHANGED <<mailLog, trip>>

\* order_status with the thread its send_shipping_notification starts
StatusMail ==
  \E o \in OrderIds, new_status \in StatusInputs, mailOk \in BOOLEAN :
    /\ OrderStatus(o, new_status, mailOk)
    /\ threads' = IF last'.mail = "started"
                  THEN StartThread(threads, ShippingMail, o)
                  ELSE threads
    /\ UNCHANGED <<mailLog, trip>>

\* send_async_email: mail.send(msg) returns (sent), or raises and the
\* exception is logged; nothing else is written
SendAsyncEmail(i, sent) ==
  /\ i \in 1..Len(threads)
  /\ threads' = RemoveAt(threads, i)
  /\ mailLog' = mailLog \cup {[template |-> threads[i].template, o |-> threads[i].o,
                                sent |-> sent]}
  /\ last' = Label("mail", threads[i].o, IF sent THEN "sent" ELSE "Failed to send email")
  /\ UNCHANGED <<products, settings, orders, decCount, restockCount, confAttempts,
                 shipAttempts, nStatus, req, hvars, trip>>

MailThread == \E i \in 1..Len(threads), sent \in BOOLEAN : SendAsyncEmail(i, sent)

\* ------------------------------------------- a payment and its refund
\* stripe_webhook and order_refund with the history of the payment made
\* last: the order and the stock just before its items were taken off.  The
\* history ends when stock changes in another way than by that order's refund.
StockOf(ps) == [p \in DOMAIN ps |-> ps[p].stock]

WebhookTrip ==
  \E sig \in Signatures, type \in EventTypes, pi \in 1..(MaxOrders + 1),
     mailOk \in BOOLEAN :
    /\ StripeWebhook(sig, type, pi, mailOk)
    /\ trip' = IF last'.res = "paid"
               THEN [o |-> OrderByIntent(pi), stock |-> StockOf(products), done |-> FALSE]
               ELSE trip
    /\ UNCHANGED <<threads, mailLog>>

RefundTrip ==
  \E o \in OrderIds, gwOk \in BOOLEAN :
    /\ OrderRefund(o, gwOk)
    /\ trip' = IF last'.res # "Refund issued successfully" THEN trip
               ELSE IF trip.o = o /\ ~trip.done THEN [trip EXCEPT !.done = TRUE]
               ELSE NoTrip
    /\ UNCHANGED <<threads, mailLog>>

\* -------------------------------------------------------- specifications
Next == Checkout \/ Webhook \/ AdminStatus \/ AdminRefund \/ AdminDelete

Spec == Init /\ [][Next]_vars

\* requests handled concurrently: the webhook handler in its two steps
NextConc == Checkout \/ WebhookBegin \/ WebhookEnd \/ AdminRefund

SpecConc == Init /\ [][NextConc]_vars

\* checkout alone, request and response side by side
NextCheckout == CheckoutRecorded

SpecCheckout == Init /\ [][NextCheckout]_vars

\* the handlers that send mail, with the sender threads running beside them
NextMail == Checkout \/ WebhookMail \/ StatusMail \/ MailThread

SpecMail == Init /\ [][NextMail]_vars

\* payments and refunds with the stock before the payment kept
NextTrip == Checkout \/ WebhookTrip \/ RefundTrip \/ AdminStatus \/ AdminDelete

SpecTrip == Init /\ [][NextTrip]_vars

\* ------------------------------------------------------------ properties
\* the vocabulary of the properties, stated apart from the handlers' loops

\* the sum of the quantities of the items that refer to product p
RECURSIVE QtyOn(_, _, _)
QtyOn(items, p, i) ==
  IF i > Len(items) THEN 0
  ELSE (IF items[i].product_id = p THEN items[i].quantity ELSE 0) + QtyOn(items, p, i + 1)

\* the sum of price snapshot x quantity over an order's items
RECURSIVE ItemsValue(_, _)
ItemsValue(items, i) ==
  IF i > Len(items) THEN 0
  ELSE items[i].price_at_time * items[i].quantity + ItemsValue(items, i + 1)

ItemsOn(items, p) == {i \in 1..Len(items) : items[i].product_id = p}

\* a cart item that names a visible product
Resolves(item) == item.id \in Live /\ products[item.id].visible

\* a cart item that asks for more than its product has
OverStock(item) == item.id \in Live /\ products[item.id].stock < item.quantity

FirstIndex(S) == CHOOSE i \in S : \A j \in S : i <= j

Rejected400 == {"Missing required fields", "Product not found", "Insufficient stock"}

\* C1: through checkouts, payments, status changes and refunds, no product's
\* stock is ever negative.
C1_StockNonNegative == \A p \in Live : products[p].stock >= 0

\* C2: a verified payment-succeeded event that finds its order PENDING moves
\* it to PAID with one decrement and one confirmation attempt; the same event
\* delivered again right after changes nothing.
C2_ReplayIdempotent ==
  [][\A pi \in 1..MaxOrders :
       LET o == OrderByIntent(pi) IN
       (last'.op = "webhook" /\ last'.o = pi /\ last'.res \in {"paid", "noop"} /\ o # 0) =>
         /\ orders[o].status = "PENDING" =>
              /\ orders'[o].status = "PAID"
              /\ decCount'[o] = decCount[o] + 1
              /\ confAttempts'[o] = confAttempts[o] + 1
         /\ last'.rep =>
              /\ orders' = orders
              /\ products' = products
              /\ decCount' = decCount
              /\ confAttempts' = confAttempts]_vars

C2_Witness ==
  /\ last.op = "webhook" /\ last.rep /\ last.res = "noop"
  /\ OrderByIntent(last.o) # 0
  /\ orders[OrderByIntent(last.o)].status = "PAID"
  /\ decCount[OrderByIntent(last.o)] = 1
  /\ confAttempts[OrderByIntent(last.o)] = 1

\* C3: with deliveries of the same event handled concurrently (and no status
\* change by the admin), a delivery that completes after the order's items
\* (of positive quantities) have been taken off stock once takes nothing more.
C3_DecrementedOnce ==
  [][\A h \in Handlers :
       (/\ hpc[h] = "loaded" /\ hpc'[h] = "idle" /\ hord[h] # 0
        /\ decCount[hord[h]] >= 1
        /\ \A i \in 1..Len(orders[hord[h]].items) : orders[hord[h]].items[i].quantity > 0)
       => products' = products]_vars

\* C4 as claimed: a checkout (customer fields present) with an item whose
\* quantity exceeds its product's stock fails with InsufficientStock and
\* creates no order.
C4_AlwaysInsufficientStock ==
  (/\ last.op = "checkout" /\ req.name /\ req.email
   /\ \E i \in 1..Len(req.items) : OverStock(req.items[i]))
  => (last.res = "Insufficient stock" /\ orders = <<>>)

\* C4 amended: such a checkout always fails with a 400 and creates no order;
\* the error is InsufficientStock when the customer fields are present and
\* every item up to and including the first over-stock one names a visible
\* product.
C4_OverStockRejected ==
  LET over == {i \in 1..Len(req.items) : OverStock(req.items[i])} IN
  (last.op = "checkout" /\ over # {}) =>
    /\ last.res \in Rejected400
    /\ orders = <<>>
    /\ (/\ req.name /\ req.email
        /\ \A j \in 1..FirstIndex(over) : Resolves(req.items[j]))
       => last.res = "Insufficient stock"

C4_Witness ==
  /\ last.op = "checkout" /\ last.res = "Insufficient stock"
  /\ Len(req.items) = 2
  /\ ~OverStock(req.items[1]) /\ OverStock(req.items[2])
  /\ orders = <<>>

C6_OrderHasIntent ==
  /\ [](\A o \in OrderIds : orders[o].stripe_payment_intent_id # NoIntent)
  /\ [][(last'.op = "checkout" /\ last'.res = "gateway error") => orders' = orders]_vars

C6_Witness ==
  /\ last.op = "checkout" /\ last.res = "gateway error"
  /\ orders = <<>>

\* C7: a refund that does not succeed changes no order and no stock; on an
\* order without intent reference or already REFUNDED it is rejected without
\* a gateway call.
C7_FailedRefundNoChange ==
  [][\A o \in OrderIds :
       (last'.op = "refund" /\ last'.o = o) =>
         /\ (orders[o].stripe_payment_intent_id = NoIntent \/ orders[o].status = "REFUNDED")
              => (last'.gw = NoIntent /\ last'.res # "Refund issued successfully")
         /\ last'.res # "Refund issued successfully"
              => (orders' = orders /\ products' = products)]_vars

C7_Witness ==
  /\ last.op = "refund" /\ last.res = "Refund failed"
  /\ orders[last.o].status = "PAID"
  /\ restockCount[last.o] = 0

\* C8: a refund of an order with an intent reference and a status other than
\* REFUNDED, when the gateway accepts it, is made with the stored reference,
\* sets REFUNDED and adds to every live product the quantities of the items
\* that refer to it, whatever the status was.
C8_RefundRestocks ==
  [][\A o \in OrderIds :
       (/\ last'.op = "refund" /\ last'.o = o
        /\ last'.res = "Refund issued successfully") =>
         /\ orders[o].stripe_payment_intent_id # NoIntent
         /\ orders[o].status # "REFUNDED"
         /\ last'.gw = orders[o].stripe_payment_intent_id
         /\ orders'[o].status = "REFUNDED"
         /\ DOMAIN products' = Live
         /\ \A p \in Live :
              products'[p].stock = products[p].stock + QtyOn(orders[o].items, p, 1)]_vars

C8_Witness ==
  /\ last.op = "refund" /\ last.res = "Refund issued successfully"
  /\ orders[last.o].status = "REFUNDED"
  /\ decCount[last.o] = 0
  /\ \E i \in 1..Len(orders[last.o].items) :
       /\ orders[last.o].items[i].product_id \in Live
       /\ orders[last.o].items[i].quantity > 0

\* C9: a successful checkout changes no stock and adds one PENDING order with
\* total = subtotal + shipping fee and subtotal = sum of price x quantity; the
\* stock goes down by the item quantities (not below 0) when the webhook moves
\* the order from PENDING to PAID.
C9_StockTakenAtPayment ==
  [][/\ Len(orders') = Len(orders) + 1 =>
          LET new == orders'[Len(orders')] IN
          /\ products' = products
          /\ new.status = "PENDING"
          /\ new.shipping_cost = ShippingCost
          /\ new.subtotal = ItemsValue(new.items, 1)
          /\ new.total = new.subtotal + new.shipping_cost
          /\ \A i \in 1..Len(new.items) :
               new.items[i].price_at_time = products[new.items[i].product_id].price
     /\ \A o \in OrderIds :
          (last'.op = "webhook" /\ orders[o].status = "PENDING" /\ orders'[o].status = "PAID") =>
            \A p \in Live :
              LET on == ItemsOn(orders[o].items, p) IN
              (Cardinality(on) <= 1 \/ \A i \in on : orders[o].items[i].quantity >= 0) =>
                products'[p].stock = Max(0, products[p].stock - QtyOn(orders[o].items, p, 1))
    ]_vars

C9_Witness ==
  /\ last.op = "webhook" /\ last.res = "paid"
  /\ OrderByIntent(last.o) # 0
  /\ LET ord == orders[OrderByIntent(last.o)] IN
       /\ ord.status = "PAID"
       /\ Len(ord.items) = 2
       /\ \A i \in 1..2 : ord.items[i].product_id \in Live /\ ord.items[i].quantity > 0
       /\ products[ord.items[1].product_id].stock = 0

\* C10: the admin status request sets any of the six values from any status,
\* leaves the status alone for any other value, and so every order's status
\* is one of the six.
C10_StatusUnguarded ==
  /\ [](\A o \in OrderIds : orders[o].status \in Valid)
  /\ [][\A o \in OrderIds :
          (last'.op = "status" /\ last'.o = o) =>
            orders'[o].status = IF last'.res \in Valid THEN last'.res ELSE orders[o].status]_vars

C10_Witness ==
  /\ last.op = "status" /\ last.res = "PENDING"
  /\ orders[last.o].status = "PENDING"
  /\ restockCount[last.o] = 1

\* an admin request that sets SHIPPED on order o is being handled
ShippedRequest(o) == last'.op = "status" /\ last'.o = o /\ last'.res = "SHIPPED"

\* C11 as claimed: a SHIPPED request on an order whose shipping_notified is
\* false makes one attempt and sets the flag; the flag never goes back to
\* false; a SHIPPED request on an order whose flag is true makes no attempt.
C11_AlwaysNotified ==
  [][\A o \in OrderIds :
       /\ (ShippedRequest(o) /\ ~orders[o].shipping_notified) =>
            /\ shipAttempts'[o] = shipAttempts[o] + 1
            /\ orders'[o].shipping_notified
       /\ orders[o].shipping_notified => orders'[o].shipping_notified
       /\ (ShippedRequest(o) /\ orders[o].shipping_notified) =>
            shipAttempts'[o] = shipAttempts[o]]_vars

\* C11 amended: a SHIPPED request on an order whose shipping_notified is
\* false makes exactly one attempt, and sets the flag if and only if the send
\* call returned; when the call raised the flag stays false, so that the next
\* SHIPPED request attempts again.  Once the flag is true it stays true and
\* no request makes a further attempt; no other request touches the flag or
\* makes an attempt.
C11_ShippedNotifiedOnce ==
  [][\A o \in OrderIds :
       /\ (ShippedRequest(o) /\ ~orders[o].shipping_notified) =>
            /\ shipAttempts'[o] = shipAttempts[o] + 1
            /\ last'.mail \in {"started", "raised"}
            /\ orders'[o].shipping_notified = (last'.mail = "started")
       /\ orders[o].shipping_notified =>
            /\ orders'[o].shipping_notified
            /\ shipAttempts'[o] = shipAttempts[o]
       /\ ~ShippedRequest(o) =>
            /\ orders'[o].shipping_notified = orders[o].shipping_notified
            /\ shipAttempts'[o] = shipAttempts[o]]_vars

C11_Witness ==
  /\ last.op = "status" /\ last.res = "SHIPPED" /\ last.mail = "started"
  /\ orders[last.o].shipping_notified
  /\ shipAttempts[last.o] = 2

\* what became of the sends of one template for order o
Pending(template, o) ==
  \E i \in 1..Len(threads) : threads[i].template = template /\ threads[i].o = o

Sent(template, o) == [template |-> template, o |-> o, sent |-> TRUE] \in mailLog

\* every item of order o has a quantity of at least 1
PositiveItems(o) == \A i \in 1..Len(orders[o].items) : orders[o].items[i].quantity > 0

\* C12: a notification flag that is true stands for a send that succeeded:
\* once no sender thread for the order's email is left running, a true
\* confirmation_sent (shipping_notified) means that one of the confirmation
\* (shipping) emails of the order was sent.  (Stated for orders of positive
\* quantities.)
C12_FlagOnlyWhenSent ==
  \A o \in OrderIds :
    PositiveItems(o) =>
      /\ (orders[o].confirmation_sent /\ ~Pending(ConfirmationMail, o))
           => Sent(ConfirmationMail, o)
      /\ (orders[o].shipping_notified /\ ~Pending(ShippingMail, o))
           => Sent(ShippingMail, o)

\* C13: every persisted order item has a quantity of at least 1.
C13_PositiveQuantities == \A o \in OrderIds : PositiveItems(o)

\* C14 as claimed: whatever the webhook deliveries, admin status changes and
\* refunds, an order's items are taken off stock at most once and put back
\* at most once.  (Stated for orders of positive quantities.)
C14_AtMostOnce ==
  \A o \in OrderIds : PositiveItems(o) => (decCount[o] <= 1 /\ restockCount[o] <= 1)

\* C14 amended: with the requests handled one after another, an order's
\* items are taken off stock only by a delivery that finds the order PENDING
\* and leaves it PAID, and put back only by a refund that finds it not
\* REFUNDED and leaves it REFUNDED; an order is taken back to PENDING, or
\* away from REFUNDED, by an admin status change only.  So without admin
\* status changes there is at most one decrement and one restock, and every
\* further one has an admin status change ahead of it.
C14_OncePerStatusChange ==
  /\ [](\A o \in OrderIds :
          /\ decCount[o] <= 1 + nStatus
          /\ restockCount[o] <= 1 + nStatus)
  /\ [][\A o \in OrderIds :
          /\ decCount'[o] # decCount[o] =>
               /\ decCount'[o] = decCount[o] + 1
               /\ last'.op = "webhook"
               /\ orders[o].status = "PENDING" /\ orders'[o].status = "PAID"
          /\ restockCount'[o] # restockCount[o] =>
               /\ restockCount'[o] = restockCount[o] + 1
               /\ last'.op = "refund"
               /\ orders[o].status # "REFUNDED" /\ orders'[o].status = "REFUNDED"
          /\ (orders[o].status # "PENDING" /\ orders'[o].status = "PENDING") =>
               (last'.op = "status" /\ last'.o = o /\ nStatus' = nStatus + 1)
          /\ (orders[o].status = "REFUNDED" /\ orders'[o].status # "REFUNDED") =>
               (last'.op = "status" /\ last'.o = o /\ nStatus' = nStatus + 1)]_vars

C14_Witness ==
  /\ last.op = "refund" /\ last.res = "Refund issued successfully"
  /\ decCount[last.o] = 2 /\ restockCount[last.o] = 2
  /\ nStatus = 1

\* every item of order o refers to a product that exists
AllLive(o) == \A i \in 1..Len(orders[o].items) : orders[o].items[i].product_id \in Live

\* what the clamp at 0 cuts off when the items on product p are taken, one
\* after the other, off a stock of s
RECURSIVE ClampLoss(_, _, _, _)
ClampLoss(s, items, p, i) ==
  IF i > Len(items) THEN 0
  ELSE IF items[i].product_id # p THEN ClampLoss(s, items, p, i + 1)
  ELSE Max(0, items[i].quantity - s)
       + ClampLoss(Max(0, s - items[i].quantity), items, p, i + 1)

\* the payment of trip.o has been followed by its refund, all products live
RoundTripDone == trip.done /\ AllLive(trip.o)

\* C15 as claimed: after the payment of an order whose products are all
\* live and the successful refund that follows it, every product's stock is
\* what it was just before the payment, clamped decrement or not.  (Stated
\* for orders of positive quantities.)
C15_RoundTrip ==
  (RoundTripDone /\ PositiveItems(trip.o)) =>
    \A p \in Live : products[p].stock = trip.stock[p]

\* C15 amended: after the payment and the refund that follows it, every
\* product's stock is what it was just before the payment plus what the
\* clamp at 0 cut off the decrement: the same value when no item's decrement
\* was clamped, a higher one when an item's quantity was greater than the
\* stock its decrement found.  For quantities that are not negative the
\* surplus is the amount by which the order's quantity of the product
\* exceeds the stock before the payment.
C15_RoundTripUnlessClamped ==
  RoundTripDone =>
    \A p \in Live :
      LET loss == ClampLoss(trip.stock[p], orders[trip.o].items, p, 1)
          on == ItemsOn(orders[trip.o].items, p)
          total == QtyOn(orders[trip.o].items, p, 1)
      IN
      /\ products[p].stock = trip.stock[p] + loss
      /\ loss >= 0
      /\ (\A i \in on : orders[trip.o].items[i].quantity >= 0) =>
           loss = Max(0, total - trip.stock[p])

C15_Witness ==
  /\ RoundTripDone /\ PositiveItems(trip.o)
  /\ last.op = "refund" /\ last.o = trip.o
  /\ \E p \in Live :
       /\ QtyOn(orders[trip.o].items, p, 1) = 2
       /\ trip.stock[p] = 2
       /\ products[p].stock = 2
====
